---- MODULE Spec2Model ----
(***************************************************************************)
(* VeloxServiceClient: the request/response pipeline of the client         *)
(* (ajax, the mock and the live transport, the interceptor chain) as a     *)
(* state machine.  One exchange per invocation of ajax; the live transport *)
(* delivers its events (readyState 4, onerror) as separate steps.          *)
(***************************************************************************)
EXTENDS Integers, Sequences, FiniteSets, TLC

\* ------------------------------------------------------------------ bounds
MaxCalls == 2
MaxInterceptors == 2
MaxMocks == 1
MaxArgs == 2
MaxRegs == 2
MaxExtensions == 2
MaxInits == 2

Calls == 1..MaxCalls
InitCalls == 1..MaxInits

\* ------------------------------------------------------------ JS values
\* The value of a property that is not there (httpStatus not given).
Undefined == 0 - 1

\* A JS value: an identity, a number (when id = "number"), and the two
\* properties _callMock reads from a mock result, httpStatus and resultObj.
Val(id) == [id |-> id, num |-> 0, httpStatus |-> Undefined, resultObj |-> "undefined"]
Num(k) == [id |-> "number", num |-> k, httpStatus |-> Undefined, resultObj |-> "undefined"]
MockResult(hs, ro) == [id |-> "mockResult", num |-> 0, httpStatus |-> hs, resultObj |-> ro]
UndefinedVal == Val("undefined")
NullVal == Val("null")

\* JS truthiness of a value: undefined, null, "" and 0 are falsy.
Truthy(v) == /\ v.id \notin {"undefined", "null", ""}
             /\ ~(v.id = "number" /\ v.num = 0)

\* JS truthiness of a number that may be absent (if(result.httpStatus)).
TruthyNum(n) == n # Undefined /\ n # 0

\* a || b
Or(a, b) == IF Truthy(a) THEN a ELSE b

\* ------------------------------------------------------------- envelopes
Envelope(status, response, url) == [status |-> status, response |-> response, url |-> url]
\* no envelope: next() called without argument, or no chain result yet
NoEnvelope == Envelope(Undefined, UndefinedVal, "undefined")

Urls == {"foo/bar", "baz"}
Payloads == {Val("p1"), Val("p2")}

\* What the server may answer on the live transport: <<status, parsed body>>.
\* Status 0 is readyState 4 without a response (network error, abort, timeout).
LiveResponses ==
  { <<0, Val("")>>, <<200, Val("srv")>>, <<300, Val("")>>,
    <<404, Val("srv")>>, <<404, Val("")>> }

\* ----------------------------------------------------------- interceptors
\* An interceptor either calls next() (pass), calls next(repl) (replace) or
\* returns without calling next (halt).
ReplEnvelopes ==
  { Envelope(0, UndefinedVal, "r"), Envelope(200, Val("r"), "r"),
    Envelope(500, UndefinedVal, "r") }
Behaviours ==
  {[kind |-> "pass", repl |-> NoEnvelope], [kind |-> "halt", repl |-> NoEnvelope]}
  \cup {[kind |-> "replace", repl |-> e] : e \in ReplEnvelopes}

\* ------------------------------------------------------------ mock entries
\* mock.result: plain data, a VeloxServiceMockEntryResult, or a function of
\* the request data (fn) returning one of those.
MockResultSpecs ==
  { [fn |-> "none", val |-> Val("ok")],
    [fn |-> "none", val |-> MockResult(404, "msg")],
    [fn |-> "none", val |-> MockResult(404, "undefined")],
    [fn |-> "none", val |-> MockResult(299, "msg")],
    [fn |-> "none", val |-> MockResult(0, "msg")],
    [fn |-> "none", val |-> MockResult(Undefined, "msg")],
    [fn |-> "echo", val |-> UndefinedVal],
    [fn |-> "status", val |-> UndefinedVal] }
MockEntries ==
  {[url |-> u, dontMock |-> FALSE, result |-> r] : u \in Urls, r \in MockResultSpecs}
  \cup {[url |-> u, dontMock |-> TRUE, result |-> [fn |-> "none", val |-> Val("ok")]] : u \in Urls}

SeqsUpTo(S, n) == UNION {[1..k -> S] : k \in 0..n}

\* options.testMocks: absent, or {mocks: [...]}
NoMocks == [present |-> FALSE, mocks |-> <<>>]
MockConfigs == {NoMocks} \cup {[present |-> TRUE, mocks |-> m] : m \in SeqsUpTo(MockEntries, MaxMocks)}

\* ------------------------------------------------------------- endpoints
\* Endpoint paths, and endpoint.split("/") on each of them.
Endpoints == {"foo", "foo/bar", "some/complex/entry"}
Split(endpoint) ==
  CASE endpoint = "foo" -> <<"foo">>
    [] endpoint = "foo/bar" -> <<"foo", "bar">>
    [] endpoint = "some/complex/entry" -> <<"some", "complex", "entry">>
Segs == {"foo", "bar", "some", "complex", "entry"}
Methods == {"POST", "GET"}

\* An argument definition {name, optional}; name "" is no name.
ParamNames == <<"x", "y", "z">>
Names == {ParamNames[i] : i \in 1..MaxArgs}
ParamDescs == [name : Names \cup {""}, optional : BOOLEAN]
\* The args option of an endpoint: not given, or a list of definitions.
AbsentArgs == [given |-> FALSE, list |-> <<>>]
\* The i-th definition of a list is named ParamNames[i] or has no name.
Schemas ==
  {AbsentArgs} \cup
  {[given |-> TRUE, list |-> l] :
     l \in {m \in SeqsUpTo(ParamDescs, MaxArgs) :
              \A i \in 1..Len(m) : m[i].name \in {"", ParamNames[i]}}}

\* The positional values of a call: the i-th argument passed is ArgValues[i].
ArgValues == <<"v1", "v2", "v3", "v4", "v5">>

\* The data object a callable builds: whole is "{}" for the object created
\* by the callable, or the value that replaced it; fields are the properties
\* the callable wrote.
NoFields == [n \in Names |-> "undefined"]
Payload(whole, fields) ==
  [id |-> whole, num |-> 0, httpStatus |-> Undefined, resultObj |-> "undefined",
   fields |-> fields]

\* The function _createEndPointFunction returns, by what it closed over; reg
\* is the number of the registration that created it (0: no function).
\* argsGiven remembers whether the endpoint was registered with args.
EndPointFunction(endpoint, method, dataEncoding, args, argsGiven, reg) ==
  [endpoint |-> endpoint, method |-> method, dataEncoding |-> dataEncoding,
   args |-> args, argsGiven |-> argsGiven, reg |-> reg]
NoFunction == EndPointFunction("", "", "undefined", <<>>, FALSE, 0)

\* A property of the client: nothing, an object {} or an endpoint function,
\* with the endpoint functions attached to it.
NoProps == [s \in Segs |-> NoFunction]
NoNode == [kind |-> "none", fn |-> NoFunction, props |-> NoProps]
ObjectNode == [kind |-> "object", fn |-> NoFunction, props |-> NoProps]
FunctionNode(fun) == [kind |-> "function", fn |-> fun, props |-> NoProps]

\* A descriptor that was given for registration and what was thrown on it,
\* "none" if nothing; batch is the number of the addEndPoints call that
\* gave it, 0 for a call of addEndPoint.  An invocation of an endpoint
\* function: the function, the number of arguments passed, the number of
\* descriptors given before it, and what it threw.
Registration(endpoint, method, dataEncoding, args, error, batch) ==
  [endpoint |-> endpoint, method |-> method, dataEncoding |-> dataEncoding,
   args |-> args, error |-> error, batch |-> batch]
NoInvocation == [fun |-> NoFunction, nargs |-> 0, at |-> 0, thrown |-> "none"]

\* The arguments of this.ajax(endpoint, method, data, dataEncoding, callback)
NoAjaxArgs ==
  [called |-> FALSE, url |-> "", method |-> "", data |-> UndefinedVal,
   dataEncoding |-> "undefined", callback |-> "undefined"]

VARIABLES
  testMode,          \* options.testMode
  testMocks,         \* this.testMocks
  ajaxInterceptors,  \* this.ajaxInterceptors
  ex,                \* per invocation of ajax: the exchange
  cbLog,             \* per invocation of ajax: the calls made to the caller's callback
  ns,                \* the endpoint properties of the client, by first segment
  regLog,            \* the addEndPoint calls made, in order, and what each threw
  invocation,        \* per invocation of an endpoint function: the call made
  ajaxArgs,          \* per invocation of an endpoint function: its call of this.ajax
  optionsDataEncoding, \* this.options.dataEncoding
  extensions,        \* VeloxServiceClient.extensions
  initRun            \* per call of init(callback): its run

vars == <<testMode, testMocks, ajaxInterceptors, ex, cbLog, ns, regLog, invocation, ajaxArgs,
          optionsDataEncoding, extensions, initRun>>
regVars == <<ns, regLog, invocation, ajaxArgs>>
extVars == <<optionsDataEncoding, extensions, initRun>>

\* method and dataEncoding are what ajax hands to the transport, wire is
\* the serialization _callXhr sent the data with, nxhr the number of
\* XMLHttpRequest objects made, nint the number of interceptors registered
\* when ajax was called.
IdleExchange ==
  [pc |-> "idle", url |-> "", data |-> UndefinedVal, xhr |-> FALSE,
   resp |-> NoEnvelope, chain |-> <<>>, trace |-> <<>>,
   completed |-> FALSE, final |-> NoEnvelope,
   method |-> "", dataEncoding |-> "undefined", wire |-> "none", nxhr |-> 0, nint |-> 0]

\* init(callback) not called.  snapshot is the copy of the extensions made by
\* init, toInit what is left of it, started the extensions whose init was
\* called, results what each called back with, cb the calls made to init's
\* callback.
NoInitRun ==
  [pc |-> "idle", snapshot |-> <<>>, toInit |-> <<>>, started |-> <<>>,
   results |-> <<>>, cb |-> <<>>]

\* The state after construction.  testMocks is only read in test mode, so a
\* live client starts without it.
Init ==
  /\ testMode \in BOOLEAN
  /\ testMocks \in MockConfigs
  /\ (~testMode => testMocks = NoMocks)
  /\ ajaxInterceptors = <<>>
  /\ ex = [c \in Calls |-> IdleExchange]
  /\ cbLog = [c \in Calls |-> <<>>]
  /\ ns = [s \in Segs |-> NoNode]
  /\ regLog = <<>>
  /\ invocation = [c \in Calls |-> NoInvocation]
  /\ ajaxArgs = [c \in Calls |-> NoAjaxArgs]
  /\ optionsDataEncoding = "form"
  /\ extensions = <<>>
  /\ initRun = [r \in InitCalls |-> NoInitRun]

\* ------------------------------------------------------ interceptor chain
\* addAjaxInterceptor(interceptor): push.  id is the registration number.
AddAjaxInterceptor(b) ==
  /\ Len(ajaxInterceptors) < MaxInterceptors
  /\ ajaxInterceptors' =
       Append(ajaxInterceptors, [id |-> Len(ajaxInterceptors) + 1, kind |-> b.kind, repl |-> b.repl])
  /\ UNCHANGED <<testMode, testMocks, ex, cbLog>>
  /\ UNCHANGED regVars
  /\ UNCHANGED extVars

\* A continuation that drops the interceptor's replacement.
NextResponseOriginal(modifiedResponse, response) == response

\* modifiedResponse||response
NextResponse(modifiedResponse, response) ==
  IF modifiedResponse # NoEnvelope THEN modifiedResponse ELSE response

\* A chain that shifts an interceptor only after its second invocation.
RECURSIVE runAjaxInterceptorsRepeat(_, _, _)
runAjaxInterceptorsRepeat(interceptors, response, trace) ==
  IF Len(interceptors) = 0
  THEN [completed |-> TRUE, final |-> response, trace |-> trace, left |-> <<>>]
  ELSE LET interceptor == Head(interceptors)
           rest == Tail(interceptors)
           once == Append(trace, [id |-> interceptor.id, response |-> response])
           again == NextResponse(interceptor.repl, response)
           seen == Append(once, [id |-> interceptor.id, response |-> again])
       IN IF interceptor.kind = "halt"
          THEN [completed |-> FALSE, final |-> NoEnvelope, trace |-> once, left |-> interceptors]
          ELSE runAjaxInterceptorsRepeat(rest, NextResponse(interceptor.repl, again), seen)

\* runAjaxInterceptors(interceptors, response, callback): shift the first
\* interceptor and call it with the response and a continuation.  trace
\* records each interceptor invoked with the response it was given; completed
\* says that callback(final) was reached, left is what the shifts left in
\* the array that was passed.
RECURSIVE runAjaxInterceptors(_, _, _)
runAjaxInterceptors(interceptors, response, trace) ==
  IF Len(interceptors) = 0
  THEN [completed |-> TRUE, final |-> response, trace |-> trace, left |-> <<>>]
  ELSE LET interceptor == Head(interceptors)
           rest == Tail(interceptors)
           seen == Append(trace, [id |-> interceptor.id, response |-> response])
       IN IF interceptor.kind = "halt"
          THEN [completed |-> FALSE, final |-> NoEnvelope, trace |-> seen, left |-> rest]
          ELSE runAjaxInterceptors(rest, NextResponse(interceptor.repl, response), seen)

\* --------------------------------------------------------------- callback
CbErr(err) == [err |-> err, result |-> UndefinedVal]
CbOk(result) == [err |-> NullVal, result |-> result]

\* The completion step of ajax: the calls it makes to the caller's callback,
\* given the transport's response and the chain's final envelope.
Completion(response, modifiedResponse) ==
  IF modifiedResponse.status >= 200 /\ modifiedResponse.status < 300
  THEN <<CbOk(modifiedResponse.response)>>
  ELSE IF response.status > 0
       THEN <<CbErr(Or(modifiedResponse.response, Num(modifiedResponse.status)))>>
       ELSE <<>>

\* A chain that runs on the client's own array: the list is what the shifts
\* left of it.
AfterRunShared(interceptors, left) == left

\* this.ajaxInterceptors after a chain ran: runAjaxInterceptors was given a
\* copy, this.ajaxInterceptors.slice(), and shifted that down to left.
AfterRun(interceptors, left) == interceptors

\* A transport callback that hands a failure to the interceptors, as an
\* envelope of status 0, before it reports it.
OnTransportChainOnError(x, cbs, err, response) ==
  LET envelope == IF Truthy(err) THEN Envelope(0, err, x.url) ELSE response
      run == runAjaxInterceptors(ajaxInterceptors, envelope, <<>>)
      seen == [x EXCEPT !.resp = IF Truthy(err) THEN x.resp ELSE response,
                        !.chain = ajaxInterceptors,
                        !.trace = run.trace, !.completed = run.completed,
                        !.final = run.final]
  IN [x |-> seen,
      cbs |-> IF ~run.completed THEN cbs
              ELSE IF Truthy(err) THEN Append(cbs, CbErr(err))
              ELSE cbs \o Completion(response, run.final),
      interceptors |-> ajaxInterceptors]

\* A transport callback that runs the interceptors the client had when the
\* exchange was dispatched.
OnTransportAtDispatch(x, cbs, err, response) ==
  IF Truthy(err)
  THEN [x |-> x, cbs |-> Append(cbs, CbErr(err)), interceptors |-> ajaxInterceptors]
  ELSE LET atDispatch == SubSeq(ajaxInterceptors, 1, x.nint)
           run == runAjaxInterceptors(atDispatch, response, <<>>)
           seen == [x EXCEPT !.resp = response, !.chain = atDispatch,
                             !.trace = run.trace, !.completed = run.completed,
                             !.final = run.final]
       IN [x |-> seen,
           cbs |-> IF run.completed THEN cbs \o Completion(response, run.final) ELSE cbs,
           interceptors |-> ajaxInterceptors]

\* ajax's function(err, response) handed to the transport, for exchange x
\* with callback log cbs: the new exchange, callback log and interceptor list.
OnTransport(x, cbs, err, response) ==
  IF Truthy(err)
  THEN [x |-> x, cbs |-> Append(cbs, CbErr(err)), interceptors |-> ajaxInterceptors]
  ELSE LET run == runAjaxInterceptors(ajaxInterceptors, response, <<>>)
           seen == [x EXCEPT !.resp = response, !.chain = ajaxInterceptors,
                             !.trace = run.trace, !.completed = run.completed,
                             !.final = run.final]
       IN [x |-> seen,
           cbs |-> IF run.completed THEN cbs \o Completion(response, run.final) ELSE cbs,
           interceptors |-> AfterRun(ajaxInterceptors, run.left)]

\* ------------------------------------------------------------- transports
\* How _callXhr sends the data: POST and PUT serialize it as json, multipart
\* or, for any other dataEncoding, as a url-encoded form; GET puts it in
\* the query string; any other method sends no data.
WireEncoding(method, dataEncoding) ==
  IF method \in {"POST", "PUT"}
  THEN IF dataEncoding = "json" THEN "json"
       ELSE IF dataEncoding = "multipart" THEN "multipart"
       ELSE "form"
  ELSE IF method = "GET" THEN "querystring"
  ELSE "none"

\* _callXhr: new XMLHttpRequest, handlers set, send.  An exception while
\* sending is reported through callback(err); nothing was sent then.
CallXhr(x, cbs, sendThrows) ==
  LET started == [x EXCEPT !.xhr = TRUE, !.nxhr = x.nxhr + 1,
                           !.wire = WireEncoding(x.method, x.dataEncoding)]
  IN IF sendThrows
     THEN LET r == OnTransport(started, cbs, Val("send exception"), NoEnvelope)
          IN [x |-> [r.x EXCEPT !.pc = "closed"], cbs |-> r.cbs, interceptors |-> r.interceptors]
     ELSE [x |-> [started EXCEPT !.pc = "sent"], cbs |-> cbs, interceptors |-> ajaxInterceptors]

\* result = mock.result; if it is a function, result = result(data)
ResolveResult(result, data) ==
  IF result.fn = "none" THEN result.val
  ELSE IF result.fn = "echo" THEN data
  ELSE MockResult(404, data.id)

\* An envelope whose body is the whole result object, status given or not.
MockEnvelopeWholeResult(result, url) ==
  IF TruthyNum(result.httpStatus)
  THEN Envelope(result.httpStatus, result, url)
  ELSE Envelope(200, result, url)

\* An envelope whose body is always read from resultObj.
MockEnvelopeResultObj(result, url) ==
  IF TruthyNum(result.httpStatus)
  THEN Envelope(result.httpStatus, Val(result.resultObj), url)
  ELSE Envelope(200, Val(result.resultObj), url)

\* The envelope _callMock builds from the effective result.
MockEnvelope(result, url) ==
  IF TruthyNum(result.httpStatus)
  THEN Envelope(result.httpStatus, Val(result.resultObj), url)
  ELSE Envelope(200, result, url)

\* A lookup that takes the first mock whatever its url.
FirstMatchAnyUrl(mocks, url) == IF Len(mocks) = 0 THEN 0 ELSE 1

\* Index of the first mock whose url is the requested one, 0 when none
\* (Array.prototype.some stops at the first entry that returns true).
FirstMatch(mocks, url) ==
  LET hits == {i \in 1..Len(mocks) : mocks[i].url = url}
  IN IF hits = {} THEN 0 ELSE CHOOSE i \in hits : \A j \in hits : i <= j

\* _callMock
CallMock(x, cbs, sendThrows) ==
  IF ~testMocks.present
  THEN LET r == OnTransport(x, cbs, Val("Missing mock data"), NoEnvelope)
       IN [x |-> [r.x EXCEPT !.pc = "closed"], cbs |-> r.cbs, interceptors |-> r.interceptors]
  ELSE LET i == FirstMatch(testMocks.mocks, x.url)
       IN IF i = 0
          THEN LET r == OnTransport(x, cbs, Val("Missing mock entry for URL"), NoEnvelope)
               IN [x |-> [r.x EXCEPT !.pc = "closed"], cbs |-> r.cbs, interceptors |-> r.interceptors]
          ELSE IF testMocks.mocks[i].dontMock
          THEN CallXhr(x, cbs, sendThrows)
          ELSE LET result == ResolveResult(testMocks.mocks[i].result, x.data)
                   r == OnTransport(x, cbs, NullVal, MockEnvelope(result, x.url))
               IN [x |-> [r.x EXCEPT !.pc = "closed"], cbs |-> r.cbs, interceptors |-> r.interceptors]

\* method.toUpperCase(), for the spellings the model uses.
ToUpperCase(method) ==
  IF method = "post" THEN "POST" ELSE IF method = "patch" THEN "PATCH" ELSE method

\* A dispatch that ignores options.testMode.
FuncToCallLive == "_callXhr"

\* funcToCall
FuncToCall == IF testMode THEN "_callMock" ELSE "_callXhr"

\* The body of ajax for the c-th invocation: the transport is called with
\* ajax's function(err, response).
\* dataEncoding is "function" when the callback is passed in its place.
Dispatch(c, url, method, data, dataEncoding, sendThrows) ==
  LET x == [ex[c] EXCEPT !.url = url, !.data = data,
                         !.method = ToUpperCase(method),
                         !.dataEncoding = IF dataEncoding = "function"
                                          THEN optionsDataEncoding ELSE dataEncoding,
                         !.nint = Len(ajaxInterceptors)]
      r == IF FuncToCall = "_callMock"
           THEN CallMock(x, cbLog[c], sendThrows)
           ELSE CallXhr(x, cbLog[c], sendThrows)
  IN /\ ex' = [ex EXCEPT ![c] = r.x]
     /\ cbLog' = [cbLog EXCEPT ![c] = r.cbs]
     /\ ajaxInterceptors' = r.interceptors

\* ajax(url, "POST", data, callback), the c-th invocation.
\* sendThrows: whether xhr.send (or the encoding before it) throws.
Ajax(c, url, data, sendThrows) ==
  /\ ex[c].pc = "idle"
  /\ c > 1 => ex[c - 1].pc # "idle"
  /\ Dispatch(c, url, "POST", data, "function", sendThrows)
  /\ UNCHANGED <<testMode, testMocks>>
  /\ UNCHANGED regVars
  /\ UNCHANGED extVars

\* A transport that answers in the order of dispatch: the response of c is
\* held back while an earlier exchange is in flight.
XhrReadyState4Queued(c, status, body) ==
  /\ ex[c].pc = "sent"
  /\ \A d \in Calls : d < c => ex[d].pc \notin {"sent", "noresponse"}
  /\ LET r == OnTransport(ex[c], cbLog[c], NullVal, Envelope(status, body, ex[c].url))
     IN /\ ex' = [ex EXCEPT ![c] = [r.x EXCEPT !.pc = IF status = 0 THEN "noresponse" ELSE "closed"]]
        /\ cbLog' = [cbLog EXCEPT ![c] = r.cbs]
        /\ ajaxInterceptors' = r.interceptors
  /\ UNCHANGED <<testMode, testMocks>>
  /\ UNCHANGED regVars
  /\ UNCHANGED extVars

\* xhr.onreadystatechange with readyState 4
XhrReadyState4(c, status, body) ==
  /\ ex[c].pc = "sent"
  /\ LET r == OnTransport(ex[c], cbLog[c], NullVal, Envelope(status, body, ex[c].url))
     IN /\ ex' = [ex EXCEPT ![c] = [r.x EXCEPT !.pc = IF status = 0 THEN "noresponse" ELSE "closed"]]
        /\ cbLog' = [cbLog EXCEPT ![c] = r.cbs]
        /\ ajaxInterceptors' = r.interceptors
  /\ UNCHANGED <<testMode, testMocks>>
  /\ UNCHANGED regVars
  /\ UNCHANGED extVars

\* An error handler that issues the request again instead of reporting.
XhrOnErrorRetry(c) ==
  /\ ex[c].pc = "noresponse"
  /\ ex' = [ex EXCEPT ![c] = [@ EXCEPT !.pc = "sent", !.nxhr = @ + 1, !.resp = NoEnvelope]]
  /\ UNCHANGED <<testMode, testMocks, ajaxInterceptors, cbLog>>
  /\ UNCHANGED regVars
  /\ UNCHANGED extVars

\* xhr.onerror: a network error fires readystatechange (readyState 4,
\* status 0) and then error.
XhrOnError(c) ==
  /\ ex[c].pc = "noresponse"
  /\ LET r == OnTransport(ex[c], cbLog[c], Val("Ajax call failed"), NoEnvelope)
     IN /\ ex' = [ex EXCEPT ![c] = [r.x EXCEPT !.pc = "closed"]]
        /\ cbLog' = [cbLog EXCEPT ![c] = r.cbs]
        /\ ajaxInterceptors' = r.interceptors
  /\ UNCHANGED <<testMode, testMocks>>
  /\ UNCHANGED regVars
  /\ UNCHANGED extVars

\* abort or timeout: readyState 4 with status 0 and no error event; the
\* client has no handler for either.
XhrAbortOrTimeout(c) ==
  /\ ex[c].pc = "noresponse"
  /\ ex' = [ex EXCEPT ![c].pc = "closed"]
  /\ UNCHANGED <<testMode, testMocks, ajaxInterceptors, cbLog>>
  /\ UNCHANGED regVars
  /\ UNCHANGED extVars

Next ==
  \/ \E b \in Behaviours : AddAjaxInterceptor(b)
  \/ \E c \in Calls, url \in Urls, data \in Payloads, sendThrows \in BOOLEAN :
       Ajax(c, url, data, sendThrows)
  \/ \E c \in Calls, r \in LiveResponses : XhrReadyState4(c, r[1], r[2])
  \/ \E c \in Calls : XhrOnError(c)
  \/ \E c \in Calls : XhrAbortOrTimeout(c)

Spec == Init /\ [][Next]_vars

\* ---------------------------------------------------------------- registry
\* A default of one required argument without name.
DefaultArgsRequired == <<[name |-> "", optional |-> FALSE]>>

\* if(!args): one optional argument without name
DefaultArgs == <<[name |-> "", optional |-> TRUE]>>

\* The check of the argument definitions, from the i-th on: what it throws,
\* "none" if nothing.  The statement `hasOptional ;` assigns nothing, so
\* hasOptional keeps the value it has.
RECURSIVE CheckArgs(_, _, _)
CheckArgs(args, i, hasOptional) ==
  IF i > Len(args) THEN "none"
  ELSE IF args[i].name = "" /\ i > 1
  THEN "if you don't give name to one argument, you can't have many arguments"
  ELSE IF ~args[i].optional /\ hasOptional
  THEN "only the last arguments can be optionals"
  ELSE CheckArgs(args, i + 1, hasOptional)

\* _createEndPointFunction: what it throws and the function it returns.
CreateEndPointFunction(endpoint, method, dataEncoding, args, reg) ==
  LET list == IF args.given THEN args.list ELSE DefaultArgs
  IN [error |-> CheckArgs(list, 1, FALSE),
      fun |-> EndPointFunction(endpoint, method, dataEncoding, list, args.given, reg)]

\* The loop of _registerEndPointFunction from the i-th segment on:
\* this[segment] is created when it is not there, and becomes currentThis.
\* current is "" while currentThis is the client itself.
RECURSIVE RegisterLoop(_, _, _, _)
RegisterLoop(nsv, segs, i, current) ==
  IF i > Len(segs) - 1
  THEN [nsv |-> nsv, current |-> current]
  ELSE RegisterLoop(
         IF nsv[segs[i]].kind = "none" THEN [nsv EXCEPT ![segs[i]] = ObjectNode] ELSE nsv,
         segs, i + 1, segs[i])

\* _registerEndPointFunction: currentThis[last segment] = fun
RegisterEndPointFunction(nsv, endpoint, fun) ==
  LET segs == Split(endpoint)
      r == RegisterLoop(nsv, segs, 1, "")
      last == segs[Len(segs)]
  IN IF r.current = ""
     THEN [r.nsv EXCEPT ![last] = FunctionNode(fun)]
     ELSE [r.nsv EXCEPT ![r.current].props[last] = fun]

\* The body of addEndPoint on namespace nsv with log: the function is made
\* first, then registered; endpoint.split throws when endpoint is undefined.
AddEndPointResult(nsv, log, endpoint, method, dataEncoding, args, batch) ==
  LET r == CreateEndPointFunction(endpoint, method, dataEncoding, args, Len(log) + 1)
      error == IF r.error # "none" THEN r.error
               ELSE IF endpoint = "undefined" THEN "TypeError"
               ELSE "none"
  IN [error |-> error,
      regLog |-> Append(log, Registration(endpoint, method, dataEncoding, args, error, batch)),
      ns |-> IF error = "none" THEN RegisterEndPointFunction(nsv, endpoint, r.fun) ELSE nsv]

\* addEndPoint(endpoint, method, dataEncoding, args)
AddEndPoint(endpoint, method, dataEncoding, args) ==
  /\ Len(regLog) < MaxRegs
  /\ LET r == AddEndPointResult(ns, regLog, endpoint, method, dataEncoding, args, 0)
     IN /\ regLog' = r.regLog
        /\ ns' = r.ns
  /\ UNCHANGED <<testMode, testMocks, ajaxInterceptors, ex, cbLog, invocation, ajaxArgs>>
  /\ UNCHANGED extVars

\* The checks addEndPoints makes on a descriptor: what it throws.
ValidateEndPoint(endPoint) ==
  IF endPoint.endpoint = "undefined" THEN "miss endpoint option"
  ELSE IF endPoint.method = "undefined" THEN "miss method option"
  ELSE IF ToUpperCase(endPoint.method) \notin {"GET", "POST", "PUT", "DELETE"}
  THEN "method option is incorrect"
  ELSE "none"

\* A forEach that checks every descriptor before it registers any: when one
\* is refused, nothing of the list is registered.
RECURSIVE AddEndPointsAllOrNothing(_, _, _, _, _)
AddEndPointsAllOrNothing(nsv, log, endPoints, i, batch) ==
  IF i > Len(endPoints) THEN [ns |-> nsv, regLog |-> log]
  ELSE LET d == endPoints[i]
           v == ValidateEndPoint(d)
           r == AddEndPointResult(nsv, log, d.endpoint, d.method, d.dataEncoding, d.args, batch)
       IN IF v # "none"
          THEN [ns |-> ns, regLog |-> Append(log, Registration(d.endpoint, d.method, d.dataEncoding, d.args, v, batch))]
          ELSE IF r.error # "none"
          THEN [ns |-> ns, regLog |-> r.regLog]
          ELSE AddEndPointsAllOrNothing(r.ns, r.regLog, endPoints, i + 1, batch)

\* The endPoints.forEach of addEndPoints from the i-th descriptor on: each
\* descriptor is checked and given to addEndPoint; a throw ends the forEach.
RECURSIVE AddEndPointsFrom(_, _, _, _, _)
AddEndPointsFrom(nsv, log, endPoints, i, batch) ==
  IF i > Len(endPoints) THEN [ns |-> nsv, regLog |-> log]
  ELSE LET d == endPoints[i]
           v == ValidateEndPoint(d)
           r == AddEndPointResult(nsv, log, d.endpoint, d.method, d.dataEncoding, d.args, batch)
       IN IF v # "none"
          THEN [ns |-> nsv, regLog |-> Append(log, Registration(d.endpoint, d.method, d.dataEncoding, d.args, v, batch))]
          ELSE IF r.error # "none"
          THEN [ns |-> r.ns, regLog |-> r.regLog]
          ELSE AddEndPointsFrom(r.ns, r.regLog, endPoints, i + 1, batch)

\* The number of addEndPoints calls made.
Batches == Cardinality({regLog[i].batch : i \in 1..Len(regLog)} \ {0})

\* addEndPoints(endPoints)
AddEndPoints(endPoints) ==
  /\ Len(regLog) + Len(endPoints) <= MaxRegs
  /\ LET r == AddEndPointsFrom(ns, regLog, endPoints, 1, Batches + 1)
     IN /\ regLog' = r.regLog
        /\ ns' = r.ns
  /\ UNCHANGED <<testMode, testMocks, ajaxInterceptors, ex, cbLog, invocation, ajaxArgs>>
  /\ UNCHANGED extVars

\* The function found at client.p1.p2...: an endpoint function has no
\* properties of its own unless it is a property of the client.
Lookup(nsv, path) ==
  IF Len(path) = 1 THEN nsv[path[1]].fn
  ELSE IF Len(path) = 2 THEN nsv[path[1]].props[path[2]]
  ELSE NoFunction

Paths == UNION {[1..k -> Segs] : k \in 1..3}
\* The paths a caller tries: no function is ever deeper than two segments.
CallPaths == {p \in Paths : Len(p) <= 2}

\* A forEach that lets a definition without value pass, required or not.
RECURSIVE MarshalArgsNoCheck(_, _, _, _)
MarshalArgsNoCheck(args, receivedArgs, i, data) ==
  IF i > Len(args) THEN [error |-> "none", data |-> data]
  ELSE IF i < Len(receivedArgs)
  THEN MarshalArgsNoCheck(args, receivedArgs, i + 1,
         IF args[i].name # ""
         THEN [data EXCEPT !.fields[args[i].name] = receivedArgs[i]]
         ELSE Payload(receivedArgs[i], NoFields))
  ELSE MarshalArgsNoCheck(args, receivedArgs, i + 1, data)

\* A forEach that takes the last received argument as a value too.
RECURSIVE MarshalArgsWithLast(_, _, _, _)
MarshalArgsWithLast(args, receivedArgs, i, data) ==
  IF i > Len(args) THEN [error |-> "none", data |-> data]
  ELSE IF i <= Len(receivedArgs)
  THEN MarshalArgsWithLast(args, receivedArgs, i + 1,
         IF args[i].name # ""
         THEN [data EXCEPT !.fields[args[i].name] = receivedArgs[i]]
         ELSE Payload(receivedArgs[i], NoFields))
  ELSE IF ~args[i].optional
  THEN [error |-> "Missing argument", data |-> data]
  ELSE MarshalArgsWithLast(args, receivedArgs, i + 1, data)

\* A forEach that leaves the data object in place on a definition without
\* name.
RECURSIVE MarshalArgsKeepObject(_, _, _, _)
MarshalArgsKeepObject(args, receivedArgs, i, data) ==
  IF i > Len(args) THEN [error |-> "none", data |-> data]
  ELSE IF i < Len(receivedArgs)
  THEN MarshalArgsKeepObject(args, receivedArgs, i + 1,
         IF args[i].name # ""
         THEN [data EXCEPT !.fields[args[i].name] = receivedArgs[i]]
         ELSE data)
  ELSE IF ~args[i].optional
  THEN [error |-> "Missing argument", data |-> data]
  ELSE MarshalArgsKeepObject(args, receivedArgs, i + 1, data)

\* The args.forEach of the endpoint function from the i-th definition on:
\* the data it builds and what it throws.
RECURSIVE MarshalArgs(_, _, _, _)
MarshalArgs(args, receivedArgs, i, data) ==
  IF i > Len(args) THEN [error |-> "none", data |-> data]
  ELSE IF i < Len(receivedArgs)
  THEN MarshalArgs(args, receivedArgs, i + 1,
         IF args[i].name # ""
         THEN [data EXCEPT !.fields[args[i].name] = receivedArgs[i]]
         ELSE Payload(receivedArgs[i], NoFields))
  ELSE IF ~args[i].optional
  THEN [error |-> "Missing argument", data |-> data]
  ELSE MarshalArgs(args, receivedArgs, i + 1, data)

\* An endpoint function without the test of its callback.
EndPointCallNoCallbackCheck(args, receivedArgs) ==
  LET m == MarshalArgs(args, receivedArgs, 1, Payload("{}", NoFields))
  IN [error |-> m.error, data |-> m.data,
      callback |-> IF Len(receivedArgs) = 0 THEN "undefined"
                   ELSE receivedArgs[Len(receivedArgs)]]

\* The endpoint function up to its call of this.ajax: what it throws, and
\* the data and the callback it passes.
EndPointCall(args, receivedArgs) ==
  IF Len(receivedArgs) = 0
  THEN [error |-> "You must give a callback", data |-> UndefinedVal, callback |-> "undefined"]
  ELSE LET m == MarshalArgs(args, receivedArgs, 1, Payload("{}", NoFields))
       IN [error |-> m.error, data |-> m.data, callback |-> receivedArgs[Len(receivedArgs)]]

\* What ajax throws before it calls the transport: method.toUpperCase()
\* on a method that is undefined.
AjaxThrows(method) == IF method = "undefined" THEN "TypeError" ELSE "none"

\* The c-th invocation is over or under way.
Used(c) == ex[c].pc # "idle" \/ invocation[c].thrown # "none"

\* client.p1.p2...(v1, ..., vn): the endpoint function found at path is
\* called with the first n of ArgValues, the last of them as callback.
Invoke(c, path, n, sendThrows) ==
  /\ ~Used(c)
  /\ c > 1 => Used(c - 1)
  /\ Lookup(ns, path) # NoFunction
  /\ LET fun == Lookup(ns, path)
         r == EndPointCall(fun.args, SubSeq(ArgValues, 1, n))
         thrown == IF r.error # "none" THEN r.error ELSE AjaxThrows(fun.method)
     IN /\ invocation' = [invocation EXCEPT ![c] = [fun |-> fun, nargs |-> n, at |-> Len(regLog), thrown |-> thrown]]
        /\ IF r.error # "none"
           THEN UNCHANGED <<ex, cbLog, ajaxArgs, ajaxInterceptors>>
           ELSE /\ ajaxArgs' = [ajaxArgs EXCEPT ![c] =
                      [called |-> TRUE, url |-> fun.endpoint, method |-> fun.method,
                       data |-> r.data, dataEncoding |-> fun.dataEncoding,
                       callback |-> r.callback]]
                /\ IF thrown # "none"
                   THEN UNCHANGED <<ex, cbLog, ajaxInterceptors>>
                   ELSE Dispatch(c, fun.endpoint, fun.method, r.data, fun.dataEncoding, sendThrows)
  /\ UNCHANGED <<testMode, testMocks, ns, regLog>>
  /\ UNCHANGED extVars

\* A client whose endpoint functions are registered and invoked: in test
\* mode with a mock for foo/bar that returns the request data.
InitReg ==
  /\ testMode \in BOOLEAN
  /\ testMocks = IF testMode
                 THEN [present |-> TRUE,
                       mocks |-> <<[url |-> "foo/bar", dontMock |-> FALSE,
                                    result |-> [fn |-> "echo", val |-> UndefinedVal]]>>]
                 ELSE NoMocks
  /\ ajaxInterceptors = <<>>
  /\ ex = [c \in Calls |-> IdleExchange]
  /\ cbLog = [c \in Calls |-> <<>>]
  /\ ns = [s \in Segs |-> NoNode]
  /\ regLog = <<>>
  /\ invocation = [c \in Calls |-> NoInvocation]
  /\ ajaxArgs = [c \in Calls |-> NoAjaxArgs]
  /\ optionsDataEncoding = "form"
  /\ extensions = <<>>
  /\ initRun = [r \in InitCalls |-> NoInitRun]

\* What the server answers to the requests of endpoint functions.
RegResponses == { <<0, Val("")>>, <<200, Val("srv")>> }

\* Argument definitions vary on foo/bar and the method on foo.
NextReg ==
  \/ \E endpoint \in Endpoints, method \in Methods, args \in Schemas :
       /\ (endpoint = "foo/bar" \/ args = AbsentArgs)
       /\ (endpoint = "foo" \/ method = "POST")
       /\ AddEndPoint(endpoint, method, "undefined", args)
  \/ \E c \in Calls, path \in CallPaths, n \in 0..(MaxArgs + 1) :
       Invoke(c, path, n, FALSE)
  \/ \E c \in Calls, r \in RegResponses : XhrReadyState4(c, r[1], r[2])
  \/ \E c \in Calls : XhrOnError(c)
  \/ \E c \in Calls : XhrAbortOrTimeout(c)

SpecReg == InitReg /\ [][NextReg]_vars

\* ------------------------------------------------------------ observation
\* The interceptor chain ran for exchange c (the transport delivered an
\* envelope).
ChainRan(c) == ex[c].resp # NoEnvelope

\* Errors that come from the transport itself and not from an envelope.
TransportErrors ==
  {Val("send exception"), Val("Ajax call failed"), Val("Missing mock data"),
   Val("Missing mock entry for URL")}

\* The calls to the caller's callback made by chain completion.
ByCompletion(c) == SelectSeq(cbLog[c], LAMBDA e : e.err \notin TransportErrors)

\* Exchange c was answered by a mock entry (test mode, entry found, mocked).
Mocked(c) ==
  /\ testMode
  /\ ex[c].pc # "idle"
  /\ testMocks.present
  /\ \E i \in 1..Len(testMocks.mocks) :
       /\ testMocks.mocks[i].url = ex[c].url
       /\ \A j \in 1..(i - 1) : testMocks.mocks[j].url # ex[c].url
       /\ ~testMocks.mocks[i].dontMock

\* The entry that answers the url of exchange c.
EntryOf(c) ==
  testMocks.mocks[CHOOSE i \in 1..Len(testMocks.mocks) :
     /\ testMocks.mocks[i].url = ex[c].url
     /\ \A j \in 1..(i - 1) : testMocks.mocks[j].url # ex[c].url]

\* The effective result of the entry for exchange c: the result itself, or
\* what the result function returns for the request data.
EffectiveResult(c) ==
  LET r == EntryOf(c).result
  IN CASE r.fn = "none" -> r.val
       [] r.fn = "echo" -> ex[c].data
       [] r.fn = "status" -> MockResult(404, ex[c].data.id)

\* No interceptor of the chain of exchange c rewrote the envelope or halted.
ChainPassed(c) == \A k \in 1..Len(ex[c].chain) : ex[c].chain[k].kind = "pass"

\* ----------------------------------------------------------------- claims

\* C1: the caller's callback of an exchange is never invoked more than once,
\* and once the exchange is over it was invoked exactly once unless an
\* interceptor declined its continuation or the final status is 0.
C1_CallbackExactlyOnce ==
  \A c \in Calls :
    /\ Len(cbLog[c]) <= 1
    /\ (/\ ex[c].pc = "closed"
        /\ ~(ChainRan(c) /\ (~ex[c].completed \/ ex[c].final.status = 0)))
       => Len(cbLog[c]) = 1

\* C2: interceptors are invoked in registration order, the first with the
\* transport's envelope and each next one with the replacement the previous
\* one passed to its continuation, or with the same envelope when it passed
\* none.
C2_ChainOrder ==
  \A c \in Calls :
    LET t == ex[c].trace
        l == ex[c].chain
    IN /\ Len(t) <= Len(l)
       /\ \A k \in 1..Len(l) : l[k] = ajaxInterceptors[k] /\ l[k].id = k
       /\ \A k \in 1..Len(t) : t[k].id = k
       /\ Len(t) >= 1 => t[1].response = ex[c].resp
       /\ \A k \in 1..(Len(t) - 1) :
            t[k + 1].response =
              IF l[k].kind = "replace" THEN l[k].repl ELSE t[k].response

\* C2 witness: A replaced the envelope and B, registered after A, was invoked
\* with A's replacement, which differs from the transport's envelope.
C2_Witness ==
  \E c \in Calls :
    /\ Len(ex[c].trace) = 2
    /\ ex[c].chain[1].kind = "replace"
    /\ ex[c].trace[2].response = ex[c].chain[1].repl
    /\ ex[c].trace[2].response # ex[c].resp

\* C3: when an interceptor does not call its continuation, no interceptor
\* registered after it is invoked for that exchange and the caller's callback
\* of that exchange is never invoked.
C3_HaltStopsExchange ==
  \A c \in Calls :
    (ChainRan(c) /\ ~ex[c].completed) =>
      /\ \A k \in 1..Len(ex[c].trace) :
           ex[c].chain[k].kind = "halt" => k = Len(ex[c].trace)
      /\ cbLog[c] = <<>>

\* C4: when every interceptor called its continuation, a final status in
\* [200,300) gives callback(null, final body) and any other non-zero final
\* status gives callback(final body if present, else final status).
C4_FinalStatusDecides ==
  \A c \in Calls :
    (ChainRan(c) /\ ex[c].completed) =>
      LET f == ex[c].final
      IN IF f.status >= 200 /\ f.status < 300
         THEN ByCompletion(c) = <<CbOk(f.response)>>
         ELSE f.status # 0 =>
                ByCompletion(c) =
                  <<CbErr(IF Truthy(f.response) THEN f.response ELSE Num(f.status))>>

\* C5: when the final envelope has status 0, chain completion does not
\* invoke the caller's callback, whatever the transport's status was.
C5_FinalZeroSuppresses ==
  \A c \in Calls :
    (ChainRan(c) /\ ex[c].completed /\ ex[c].final.status = 0) =>
      ByCompletion(c) = <<>>

\* C6: in test mode, a mock result with an explicit non-zero httpStatus
\* outside [200,300) and a resultObj, with no interceptor rewriting the
\* envelope, gives exactly callback(resultObj): resultObj as the error and
\* no result.
C6_MockErrorStatus ==
  \A c \in Calls :
    (/\ Mocked(c)
     /\ ChainPassed(c)
     /\ EffectiveResult(c).id = "mockResult"
     /\ EffectiveResult(c).httpStatus \notin ({Undefined, 0} \cup 200..299)
     /\ EffectiveResult(c).resultObj # "undefined")
    => cbLog[c] = <<[err |-> Val(EffectiveResult(c).resultObj), result |-> UndefinedVal]>>

\* C6 witness: the mock {httpStatus: 404, resultObj: msg} was delivered as
\* the error.
C6_Witness ==
  \E c \in Calls :
    /\ Mocked(c)
    /\ EntryOf(c).result = [fn |-> "none", val |-> MockResult(404, "msg")]
    /\ cbLog[c] = <<[err |-> Val("msg"), result |-> UndefinedVal]>>

\* C7: in test mode, a mock result with httpStatus 0 gives the caller's
\* callback nothing: neither an error nor a result.
C7_MockStatusZero ==
  \A c \in Calls :
    (/\ Mocked(c)
     /\ ChainPassed(c)
     /\ EffectiveResult(c).id = "mockResult"
     /\ EffectiveResult(c).httpStatus = 0)
    => cbLog[c] = <<>>

\* C8: in test mode, a mock result that is a bare value, or a function
\* returning one for the request data, gives an envelope with status 200 and
\* that value as body, and with no interceptors callback(null, value).
C8_MockBareValue ==
  \A c \in Calls :
    (Mocked(c) /\ EffectiveResult(c).id # "mockResult") =>
      /\ ex[c].resp = Envelope(200, EffectiveResult(c), ex[c].url)
      /\ ex[c].chain = <<>> =>
           cbLog[c] = <<[err |-> NullVal, result |-> EffectiveResult(c)]>>

\* C8 witness: endpoint foo/bar mocked by the plain value ok gave
\* callback(null, ok) with no interceptors.
C8_Witness ==
  \E c \in Calls :
    /\ Mocked(c)
    /\ ex[c].url = "foo/bar"
    /\ EntryOf(c).result = [fn |-> "none", val |-> Val("ok")]
    /\ ex[c].chain = <<>>
    /\ cbLog[c] = <<[err |-> NullVal, result |-> Val("ok")]>>

\* C9: a mock result object with a resultObj and no httpStatus is status
\* 200 with resultObj as body: with no interceptors callback(null, resultObj).
C9_MockDefaultStatus ==
  \A c \in Calls :
    (/\ Mocked(c)
     /\ ex[c].chain = <<>>
     /\ EffectiveResult(c).id = "mockResult"
     /\ EffectiveResult(c).httpStatus = Undefined)
    => /\ ex[c].resp = Envelope(200, Val(EffectiveResult(c).resultObj), ex[c].url)
       /\ cbLog[c] = <<[err |-> NullVal, result |-> Val(EffectiveResult(c).resultObj)]>>

\* C10: in test mode an exchange reaches the live transport (an
\* XMLHttpRequest is created for it) exactly when the first mock entry for
\* its url is marked dontMock.
C10_TestModeNoNetwork ==
  \A c \in Calls :
    (testMode /\ ex[c].pc # "idle") =>
      (ex[c].xhr <=>
         /\ testMocks.present
         /\ \E i \in 1..Len(testMocks.mocks) :
              /\ testMocks.mocks[i].url = ex[c].url
              /\ \A j \in 1..(i - 1) : testMocks.mocks[j].url # ex[c].url
              /\ testMocks.mocks[i].dontMock)

\* C10 witness: in test mode one exchange went to the live transport
\* (dontMock) and another was answered without it.
C10_Witness ==
  /\ testMode
  /\ \E c \in Calls : ex[c].xhr
  /\ \E c \in Calls : ex[c].pc = "closed" /\ ~ex[c].xhr

\* C11: in test mode, a call whose path has no usable mock fails through the
\* callback: "Missing mock data" without mock configuration, a missing-entry
\* error when no entry has the requested url; the callback is invoked
\* exactly once with no result, and no interceptor and no live transport run.
C11_MissingMock ==
  \A c \in Calls :
    (testMode /\ ex[c].pc # "idle") =>
      /\ ~testMocks.present =>
           /\ cbLog[c] = <<[err |-> Val("Missing mock data"), result |-> UndefinedVal]>>
           /\ ex[c].trace = <<>> /\ ~ChainRan(c) /\ ~ex[c].xhr
      /\ (testMocks.present /\ \A i \in 1..Len(testMocks.mocks) : testMocks.mocks[i].url # ex[c].url) =>
           /\ cbLog[c] = <<[err |-> Val("Missing mock entry for URL"), result |-> UndefinedVal]>>
           /\ ex[c].trace = <<>> /\ ~ChainRan(c) /\ ~ex[c].xhr

\* C11 witness: with an interceptor registered and a mock for another url,
\* the call got the missing-entry error once and no interceptor ran.
C11_Witness ==
  \E c \in Calls :
    /\ testMode /\ testMocks.present /\ Len(testMocks.mocks) = 1
    /\ Len(ajaxInterceptors) >= 1
    /\ ex[c].pc = "closed"
    /\ testMocks.mocks[1].url # ex[c].url
    /\ ex[c].trace = <<>>
    /\ cbLog[c] = <<[err |-> Val("Missing mock entry for URL"), result |-> UndefinedVal]>>


\* -------------------------------------------------------------- extensions
\* VeloxServiceClient.registerExtension(extension): push.  id is the
\* registration number.
RegisterExtension ==
  /\ Len(extensions) < MaxExtensions
  /\ extensions' = Append(extensions, [id |-> Len(extensions) + 1])
  /\ UNCHANGED <<testMode, testMocks, ajaxInterceptors, ex, cbLog, optionsDataEncoding, initRun>>
  /\ UNCHANGED regVars

\* initExtension(extensionsToInit, callback) for run: callback() when the
\* list is empty, else the first extension is shifted and its init called.
InitExtension(extensionsToInit, run) ==
  IF Len(extensionsToInit) = 0
  THEN [run EXCEPT !.pc = "done", !.toInit = <<>>, !.cb = Append(run.cb, "undefined")]
  ELSE [run EXCEPT !.pc = "waiting", !.toInit = Tail(extensionsToInit),
                   !.started = Append(run.started, Head(extensionsToInit).id)]

\* A function(err) that goes on with the next extension whatever err is.
OnExtensionInitIgnoringError(run, err) ==
  InitExtension(run.toInit, [run EXCEPT !.results = Append(run.results, err)])

\* The function(err) that initExtension gives to extension.init.
OnExtensionInit(run, err) ==
  LET called == [run EXCEPT !.results = Append(run.results, err)]
  IN IF err # "undefined"
     THEN [called EXCEPT !.pc = "done", !.cb = Append(called.cb, err)]
     ELSE InitExtension(called.toInit, called)

\* init(callback), the r-th call
ClientInit(r) ==
  /\ initRun[r].pc = "idle"
  /\ r > 1 => initRun[r - 1].pc # "idle"
  /\ initRun' = [initRun EXCEPT ![r] =
                   InitExtension(extensions, [NoInitRun EXCEPT !.snapshot = extensions])]
  /\ UNCHANGED <<testMode, testMocks, ajaxInterceptors, ex, cbLog, optionsDataEncoding, extensions>>
  /\ UNCHANGED regVars

\* The extension whose init was called by the r-th run calls back.
InitErrors == {"e1", "e2"}
ExtensionCallsBack(r, err) ==
  /\ initRun[r].pc = "waiting"
  /\ initRun' = [initRun EXCEPT ![r] = OnExtensionInit(initRun[r], err)]
  /\ UNCHANGED <<testMode, testMocks, ajaxInterceptors, ex, cbLog, optionsDataEncoding, extensions>>
  /\ UNCHANGED regVars

NextInit ==
  \/ RegisterExtension
  \/ \E r \in InitCalls : ClientInit(r)
  \/ \E r \in InitCalls, err \in InitErrors \cup {"undefined"} : ExtensionCallsBack(r, err)

SpecInit == Init /\ [][NextInit]_vars

\* C25: init calls the init of the extensions one at a time in the order
\* of registration, the next one only after the one before called back
\* without error; at the first error no other is started and init's
\* callback gets that error; when all succeed, or there is no extension,
\* init's callback is called once without error.
C25_InitSequential ==
  \A r \in InitCalls :
    LET run == initRun[r]
        n == Len(run.snapshot)
        k == Len(run.started)
        m == Len(run.results)
    IN run.pc # "idle" =>
         /\ k <= n
         /\ \A i \in 1..k : run.started[i] = i
         /\ m \in {k - 1, k} /\ m >= 0
         /\ \A i \in 1..(k - 1) : run.results[i] = "undefined"
         /\ m < k => run.cb = <<>>
         /\ (m = k /\ k > 0 /\ run.results[k] # "undefined") => run.cb = <<run.results[k]>>
         /\ (m = k /\ (k = 0 \/ run.results[k] = "undefined"))
              => (k = n /\ run.cb = <<"undefined">>)

C25_Witness ==
  \E r \in InitCalls :
    /\ Len(initRun[r].snapshot) = MaxExtensions
    /\ initRun[r].started = <<1>>
    /\ initRun[r].results = <<"e1">>
    /\ initRun[r].cb = <<"e1">>

\* ------------------------------------------------------ batch registration
\* The descriptors given to addEndPoints and addEndPoint: well-formed ones,
\* and ones with one defect each (no endpoint, no method, a method that is
\* not supported, args that the rules on args exclude).
BatchArgs ==
  { AbsentArgs,
    [given |-> TRUE, list |-> <<[name |-> "x", optional |-> FALSE], [name |-> "", optional |-> FALSE]>>],
    [given |-> TRUE, list |-> <<[name |-> "x", optional |-> TRUE], [name |-> "y", optional |-> FALSE]>>] }
BatchDescs ==
  { d \in [endpoint : {"foo", "foo/bar", "undefined"},
           method : {"POST", "post", "PATCH", "undefined"},
           dataEncoding : {"undefined"},
           args : BatchArgs] :
      Cardinality({k \in 1..3 :
          \/ k = 1 /\ d.endpoint = "undefined"
          \/ k = 2 /\ d.method \in {"PATCH", "undefined"}
          \/ k = 3 /\ d.args # AbsentArgs}) <= 1 }

\* A client in test mode whose mock returns the request data.
InitBatch ==
  /\ testMode = TRUE
  /\ testMocks = [present |-> TRUE,
                  mocks |-> <<[url |-> "foo/bar", dontMock |-> FALSE,
                               result |-> [fn |-> "echo", val |-> UndefinedVal]]>>]
  /\ ajaxInterceptors = <<>>
  /\ ex = [c \in Calls |-> IdleExchange]
  /\ cbLog = [c \in Calls |-> <<>>]
  /\ ns = [s \in Segs |-> NoNode]
  /\ regLog = <<>>
  /\ invocation = [c \in Calls |-> NoInvocation]
  /\ ajaxArgs = [c \in Calls |-> NoAjaxArgs]
  /\ optionsDataEncoding = "form"
  /\ extensions = <<>>
  /\ initRun = [r \in InitCalls |-> NoInitRun]

NextBatch ==
  \/ \E endPoints \in SeqsUpTo(BatchDescs, MaxRegs) :
       Len(endPoints) > 0 /\ AddEndPoints(endPoints)
  \/ \E d \in BatchDescs : AddEndPoint(d.endpoint, d.method, d.dataEncoding, d.args)
  \/ \E c \in Calls, path \in CallPaths, n \in 1..2 : Invoke(c, path, n, FALSE)

SpecBatch == InitBatch /\ [][NextBatch]_vars

\* ---------------------------------------------------------------- encoding
\* The values of dataEncoding the client knows.
Encodings == {"form", "json", "multipart"}

\* ajax(url, method, data, dataEncoding, callback) called by the application,
\* the c-th invocation; dataEncoding is "function" when it is left out.
AjaxCall(c, url, method, data, dataEncoding, sendThrows) ==
  /\ ~Used(c)
  /\ c > 1 => Used(c - 1)
  /\ Dispatch(c, url, method, data, dataEncoding, sendThrows)
  /\ UNCHANGED <<testMode, testMocks>>
  /\ UNCHANGED regVars
  /\ UNCHANGED extVars

\* A client, live or in test mode without mock data, with any client-wide
\* dataEncoding (the constructor sets "form" when the option is not given).
InitEnc ==
  /\ testMode \in BOOLEAN
  /\ testMocks = NoMocks
  /\ ajaxInterceptors = <<>>
  /\ ex = [c \in Calls |-> IdleExchange]
  /\ cbLog = [c \in Calls |-> <<>>]
  /\ ns = [s \in Segs |-> NoNode]
  /\ regLog = <<>>
  /\ invocation = [c \in Calls |-> NoInvocation]
  /\ ajaxArgs = [c \in Calls |-> NoAjaxArgs]
  /\ optionsDataEncoding \in Encodings
  /\ extensions = <<>>
  /\ initRun = [r \in InitCalls |-> NoInitRun]

\* The endpoint foo is registered with or without a dataEncoding, and
\* invoked; ajax is also called directly, with or without a dataEncoding.
NextEnc ==
  \/ \E method \in {"POST", "GET"}, dataEncoding \in {"undefined", "json"} :
       AddEndPoint("foo", method, dataEncoding, AbsentArgs)
  \/ \E c \in Calls : Invoke(c, <<"foo">>, 2, FALSE)
  \/ \E c \in Calls, dataEncoding \in {"function", "multipart"} :
       AjaxCall(c, "foo", "POST", Val("p1"), dataEncoding, FALSE)
  \/ \E c \in Calls, r \in LiveResponses : XhrReadyState4(c, r[1], r[2])
  \/ \E c \in Calls : XhrOnError(c)
  \/ \E c \in Calls : XhrAbortOrTimeout(c)

SpecEnc == InitEnc /\ [][NextEnc]_vars

\* The encoding that the declared encoding of an endpoint and the
\* client-wide default resolve to.
ResolvedEncoding(declared) ==
  IF declared # "undefined" THEN declared ELSE optionsDataEncoding

\* C21: the encoding of a request is the per-call override, else the
\* endpoint's declared encoding, else the client-wide default: a POST or
\* PUT call through an endpoint function whose descriptor declares no
\* encoding is serialized with options.dataEncoding.
C21_EncodingResolution ==
  \A c \in Calls :
    (ajaxArgs[c].called /\ ex[c].nxhr > 0 /\ ex[c].method \in {"POST", "PUT"})
      => ex[c].wire = ResolvedEncoding(invocation[c].fun.dataEncoding)

\* ------------------------------------------------------- registry claims
\* The j-th addEndPoint call registered a function.
Registered(j) == regLog[j].error = "none"
LastRegistration == regLog[Len(regLog)]

\* The places of the namespace that hold the function of the j-th call.
PlacesOf(j) == {p \in Paths : Lookup(ns, p).reg = j}

\* C12: after the registration of a well-formed descriptor with path
\* s1/.../sk the callable is at client.s1.s2...sk, one nesting level per
\* segment, and at no other place.
C12_NestedPath ==
  (Len(regLog) > 0 /\ Registered(Len(regLog)))
    => PlacesOf(Len(regLog)) = {Split(LastRegistration.endpoint)}

\* C13: after two registrations of the same path the namespace holds one
\* callable at that path, and every later invocation uses the method, the
\* encoding and the argument definitions of the second registration.
C13_Reregistration ==
  \A i, j \in 1..Len(regLog) :
    (i < j /\ Registered(i) /\ Registered(j) /\ regLog[i].endpoint = regLog[j].endpoint)
      => LET e == regLog[j].endpoint
         IN /\ j = Len(regLog)
                 => /\ {p \in Paths : Lookup(ns, p).endpoint = e} = {Split(e)}
                    /\ PlacesOf(j) = {Split(e)}
            /\ \A c \in Calls :
                 ( /\ invocation[c].fun.endpoint = e
                   /\ invocation[c].at >= j
                   /\ ~\E k \in (j + 1)..invocation[c].at :
                         Registered(k) /\ regLog[k].endpoint = e )
                   => /\ invocation[c].fun.method = regLog[j].method
                      /\ invocation[c].fun.dataEncoding = regLog[j].dataEncoding
                      /\ invocation[c].fun.argsGiven = regLog[j].args.given
                      /\ regLog[j].args.given => invocation[c].fun.args = regLog[j].args.list
                      /\ ajaxArgs[c].called => ajaxArgs[c].method = regLog[j].method

\* A required definition follows an optional one.
RequiredAfterOptional(list) ==
  \E i, j \in 1..Len(list) : i < j /\ list[i].optional /\ ~list[j].optional

\* C14: argument definitions in which a required one follows an optional
\* one are rejected by addEndPoint: it throws and registers no callable.
C14_RequiredAfterOptionalRejected ==
  \A j \in 1..Len(regLog) :
    (regLog[j].args.given /\ RequiredAfterOptional(regLog[j].args.list))
      => (~Registered(j) /\ PlacesOf(j) = {})

\* A definition without name among several definitions.
UnnamedAmongMany(list) ==
  Len(list) > 1 /\ \E i \in 1..Len(list) : list[i].name = ""

\* C15: argument definitions that hold an unnamed one together with any
\* other are rejected by addEndPoint: it throws and registers no callable.
C15_UnnamedAmongManyRejected ==
  \A j \in 1..Len(regLog) :
    (regLog[j].args.given /\ UnnamedAmongMany(regLog[j].args.list))
      => (~Registered(j) /\ PlacesOf(j) = {})


\* ----------------------------------------------------- invocation claims
\* The c-th invocation of an endpoint function was made.
Invoked(c) == invocation[c].fun # NoFunction

\* Nothing of the c-th invocation went beyond the endpoint function.
NothingDispatched(c) ==
  ~ajaxArgs[c].called /\ ex[c] = IdleExchange /\ cbLog[c] = <<>>

\* The c-th invocation called this.ajax, which started its one exchange
\* with the data of the call.
DispatchedOnce(c) ==
  /\ invocation[c].thrown = "none"
  /\ ajaxArgs[c].called
  /\ ajaxArgs[c].url = invocation[c].fun.endpoint
  /\ ex[c].pc # "idle"
  /\ ex[c].url = invocation[c].fun.endpoint
  /\ ex[c].data = ajaxArgs[c].data

\* The greatest element of a set of indexes, 0 for the empty set.
Last(S) == IF S = {} THEN 0 ELSE CHOOSE i \in S : \A k \in S : k <= i

\* The data that definitions args and n arguments (values and callback)
\* describe: the value of the last definition without name that has one is
\* the whole data, and each name holds the value of the last definition of
\* that name after it.
ExpectedData(args, n) ==
  LET valued == {i \in 1..Len(args) : i <= n - 1}
      u == Last({i \in valued : args[i].name = ""})
      w(nm) == Last({i \in valued : i > u /\ args[i].name = nm})
  IN Payload(IF u = 0 THEN "{}" ELSE ArgValues[u],
             [nm \in Names |-> IF w(nm) = 0 THEN "undefined" ELSE ArgValues[w(nm)]])

\* The required definitions of args.
Required(args) == {i \in 1..Len(args) : ~args[i].optional}

\* C16: an invocation with a callback but without a value for some
\* required argument throws a missing-argument error before any dispatch:
\* ajax is not called, no transport is started, the callback is not called.
C16_MissingArgument ==
  \A c \in Calls :
    ( /\ Invoked(c)
      /\ invocation[c].nargs >= 1
      /\ \E i \in Required(invocation[c].fun.args) : i > invocation[c].nargs - 1 )
      => (invocation[c].thrown = "Missing argument" /\ NothingDispatched(c))

C16_Witness ==
  \E c \in Calls :
    /\ Invoked(c)
    /\ invocation[c].nargs >= 2
    /\ \E i \in Required(invocation[c].fun.args) : i > invocation[c].nargs - 1
    /\ invocation[c].thrown = "Missing argument"

\* All optional definitions of args come last.
OptionalsLast(args) ==
  \A i, j \in 1..Len(args) : (i < j /\ args[i].optional) => args[j].optional

\* C17: when all optional definitions come last, an invocation with exactly
\* the required arguments and the callback throws nothing and dispatches
\* one request whose data holds exactly the required arguments.
C17_RequiredOnly ==
  \A c \in Calls :
    ( /\ Invoked(c)
      /\ OptionalsLast(invocation[c].fun.args)
      /\ invocation[c].nargs = Cardinality(Required(invocation[c].fun.args)) + 1 )
      => /\ DispatchedOnce(c)
         /\ ajaxArgs[c].data = ExpectedData(invocation[c].fun.args, invocation[c].nargs)
         /\ \A i \in 1..Len(invocation[c].fun.args) :
              (invocation[c].fun.args[i].optional /\ invocation[c].fun.args[i].name # "")
                => ajaxArgs[c].data.fields[invocation[c].fun.args[i].name] = "undefined"

C17_Witness ==
  \E c \in Calls :
    /\ Invoked(c)
    /\ OptionalsLast(invocation[c].fun.args)
    /\ Required(invocation[c].fun.args) = {1}
    /\ Len(invocation[c].fun.args) = 2
    /\ invocation[c].nargs = 2
    /\ ajaxArgs[c].called
    /\ ex[c].pc = "closed"

\* C18: the last argument of an invocation is the callback and is not
\* written into the data; an invocation without arguments throws a
\* missing-callback error and dispatches nothing.
C18_LastIsCallback ==
  \A c \in Calls :
    /\ ajaxArgs[c].called
         => /\ invocation[c].nargs >= 1
            /\ ajaxArgs[c].callback = ArgValues[invocation[c].nargs]
            /\ ajaxArgs[c].data.id # ajaxArgs[c].callback
            /\ \A nm \in Names : ajaxArgs[c].data.fields[nm] # ajaxArgs[c].callback
    /\ (Invoked(c) /\ invocation[c].nargs = 0)
         => (invocation[c].thrown = "You must give a callback" /\ NothingDispatched(c))

C18_Witness ==
  \E c, d \in Calls :
    /\ Invoked(c) /\ invocation[c].nargs = 0
    /\ invocation[c].thrown = "You must give a callback"
    /\ ajaxArgs[d].called /\ invocation[d].nargs = MaxArgs + 1
    /\ Len(invocation[d].fun.args) = MaxArgs

\* C19: the data passed to ajax is built from the definitions and the
\* values before the callback: a definition with a name sets data[name],
\* one without name makes its value the whole data, a definition without
\* value adds nothing, and the data is an empty object when no value is
\* given.
C19_DataFromArgs ==
  \A c \in Calls :
    ajaxArgs[c].called
      => /\ ajaxArgs[c].data = ExpectedData(invocation[c].fun.args, invocation[c].nargs)
         /\ invocation[c].nargs = 1 => ajaxArgs[c].data = Payload("{}", NoFields)

C19_Witness ==
  \E c, d \in Calls :
    /\ ajaxArgs[c].called /\ ajaxArgs[d].called
    /\ invocation[c].fun.args = <<[name |-> "", optional |-> FALSE]>>
    /\ ajaxArgs[c].data = Payload(ArgValues[1], NoFields)
    /\ Len(invocation[d].fun.args) = 2
    /\ invocation[d].nargs = 2
    /\ invocation[d].fun.args[1].name = ParamNames[1]
    /\ invocation[d].fun.args[2].name = ParamNames[2]
    /\ ajaxArgs[d].data.id = "{}"
    /\ ajaxArgs[d].data.fields[ParamNames[1]] = ArgValues[1]
    /\ ajaxArgs[d].data.fields[ParamNames[2]] = "undefined"

\* C20: an endpoint registered without args is invoked as f(callback),
\* which dispatches an empty data object, or as f(data, callback), which
\* dispatches data as the whole data; neither throws.
C20_NoArgsGiven ==
  \A c \in Calls :
    (Invoked(c) /\ ~invocation[c].fun.argsGiven)
      => /\ invocation[c].nargs = 1
              => (DispatchedOnce(c) /\ ajaxArgs[c].data = Payload("{}", NoFields))
         /\ invocation[c].nargs = 2
              => (DispatchedOnce(c) /\ ajaxArgs[c].data = Payload(ArgValues[1], NoFields))

C20_Witness ==
  \E c, d \in Calls :
    /\ Invoked(c) /\ ~invocation[c].fun.argsGiven /\ invocation[c].nargs = 1
    /\ Invoked(d) /\ ~invocation[d].fun.argsGiven /\ invocation[d].nargs = 2
    /\ ajaxArgs[c].called /\ ajaxArgs[d].called


\* ------------------------------------------------- batch registration claims
\* This step is a call of addEndPoints that throws.
BatchThrows ==
  /\ Len(regLog') > Len(regLog)
  /\ regLog'[Len(regLog')].batch > 0
  /\ regLog'[Len(regLog')].error # "none"

\* The namespace after the descriptors from the i-th on of log that were
\* accepted are registered on nsv, in order.
RECURSIVE Replay(_, _, _)
Replay(nsv, log, i) ==
  IF i > Len(log) THEN nsv
  ELSE Replay(
         IF log[i].error = "none"
         THEN RegisterEndPointFunction(nsv, log[i].endpoint,
                CreateEndPointFunction(log[i].endpoint, log[i].method, log[i].dataEncoding,
                                       log[i].args, i).fun)
         ELSE nsv,
         log, i + 1)

\* C22 as stated: when a descriptor of the list is refused, addEndPoints
\* throws and the namespace is what it was before the call.
C22_AllOrNothing == [][BatchThrows => ns' = ns]_vars

\* C22 as the code has it: when a descriptor of the list is refused,
\* addEndPoints throws and the namespace holds, over what it held before,
\* the registrations of the descriptors that precede the refused one.
C22_PrecedingRegistered ==
  [][BatchThrows => ns' = Replay(ns, regLog', Len(regLog) + 1)]_vars

C22_Witness ==
  \E i, j \in 1..Len(regLog) :
    /\ i < j
    /\ regLog[i].batch > 0
    /\ regLog[i].batch = regLog[j].batch
    /\ regLog[i].error = "none"
    /\ regLog[j].error # "none"
    /\ {p \in Paths : Lookup(ns, p).reg = i} # {}

\* A descriptor without endpoint, without method or with a method that is
\* not GET, POST, PUT or DELETE in any case.
Malformed(d) ==
  \/ d.endpoint = "undefined"
  \/ d.method = "undefined"
  \/ d.method \notin {"GET", "POST", "PUT", "DELETE", "get", "post", "put", "delete"}

\* A descriptor that is malformed or whose args break a rule on args.
InvalidDescriptor(d) ==
  \/ Malformed(d)
  \/ d.args.given /\ (RequiredAfterOptional(d.args.list) \/ UnnamedAmongMany(d.args.list))

\* C23: in an addEndPoints call the first invalid descriptor ends the call:
\* neither it nor any descriptor after it in the list is registered.
C23_FirstInvalidAborts ==
  \A i \in 1..Len(regLog) :
    (regLog[i].batch > 0 /\ InvalidDescriptor(regLog[i]))
      => /\ ~Registered(i)
         /\ PlacesOf(i) = {}
         /\ \A j \in 1..Len(regLog) : j > i => regLog[j].batch # regLog[i].batch

\* C24: a malformed descriptor is refused by addEndPoints and by addEndPoint
\* alike when it is given, and never registered.
C24_MalformedRejected ==
  \A i \in 1..Len(regLog) :
    Malformed(regLog[i]) => (~Registered(i) /\ PlacesOf(i) = {})

\* The last registration of endpoint e that was accepted, 0 if none.
LastRegOf(e) == Last({j \in 1..Len(regLog) : Registered(j) /\ regLog[j].endpoint = e})

\* C30: every path that was registered still resolves to the callable of
\* its most recent registration, whatever was registered since (paths of
\* at most two segments: for longer ones see C12).
C30_NeverRemoved ==
  \A i \in 1..Len(regLog) :
    (Registered(i) /\ Len(Split(regLog[i].endpoint)) <= 2)
      => Lookup(ns, Split(regLog[i].endpoint)).reg = LastRegOf(regLog[i].endpoint)


\* ------------------------------------------- interceptor list, concurrency
\* The chain runs for c in a step that records c's response.
ChainRuns(c) == ex[c].resp = NoEnvelope /\ ex'[c].resp # NoEnvelope

\* How many interceptors of a list a chain invokes: up to and including the
\* first one that never calls next.
RECURSIVE InterceptorsInvoked(_)
InterceptorsInvoked(interceptors) ==
  IF Len(interceptors) = 0 THEN 0
  ELSE IF Head(interceptors).kind = "halt" THEN 1
       ELSE 1 + InterceptorsInvoked(Tail(interceptors))

\* C26 as stated: the interceptors run for an exchange are those of the
\* list as it was when the exchange was dispatched, so none registered
\* after the dispatch runs for it.
C26_ListAtDispatch ==
  \A c \in Calls :
    ChainRan(c) => \A k \in 1..Len(ex[c].trace) : ex[c].trace[k].id <= ex[c].nint

\* C26 amended: the interceptors run for an exchange are those of the list
\* as it is when the response of the exchange arrives, in order, up to the
\* first one that does not continue.
C26_ListAtResponse ==
  [][\A c \in Calls :
       ChainRuns(c) =>
         /\ Len(ex'[c].trace) = InterceptorsInvoked(ajaxInterceptors)
         /\ \A k \in 1..Len(ex'[c].trace) : ex'[c].trace[k].id = ajaxInterceptors[k].id]_vars

\* An interceptor registered while the exchange was in flight ran for it.
C26_Witness ==
  \E c \in Calls : ChainRan(c) /\ Len(ex[c].trace) > ex[c].nint

\* C27: the interceptor list changes only by addAjaxInterceptor appending
\* one interceptor; a chain run leaves it as it was and starts from the
\* complete list.
C27_AppendOnly ==
  [][/\ ajaxInterceptors' # ajaxInterceptors =>
          /\ Len(ajaxInterceptors') = Len(ajaxInterceptors) + 1
          /\ SubSeq(ajaxInterceptors', 1, Len(ajaxInterceptors)) = ajaxInterceptors
          /\ ex' = ex
          /\ cbLog' = cbLog
     /\ \A c \in Calls :
          ChainRuns(c) =>
            /\ ajaxInterceptors' = ajaxInterceptors
            /\ ex'[c].chain = ajaxInterceptors
            /\ ex'[c].trace # <<>> => ex'[c].trace[1].id = ajaxInterceptors[1].id]_vars

\* Two exchanges ran the whole of the same full list, which is still there.
C27_Witness ==
  \E c, d \in Calls :
    /\ c # d
    /\ ChainRan(c) /\ ChainRan(d)
    /\ Len(ajaxInterceptors) = MaxInterceptors
    /\ ex[c].chain = ajaxInterceptors /\ ex[d].chain = ajaxInterceptors
    /\ Len(ex[c].trace) = MaxInterceptors /\ Len(ex[d].trace) = MaxInterceptors

\* C28: an exchange in flight can receive its response whatever the state
\* of the other exchanges; a step that completes or changes one exchange
\* leaves every other exchange and every other callback as they were, and
\* the response recorded for an exchange is the one for its own URL.
C28_Independent ==
  /\ [](\A c \in Calls : ex[c].pc = "sent" =>
          \A r \in LiveResponses : ENABLED XhrReadyState4(c, r[1], r[2]))
  /\ [](\A c \in Calls : ChainRan(c) => ex[c].resp.url = ex[c].url)
  /\ [][\A c \in Calls :
          (cbLog'[c] # cbLog[c] \/ ex'[c] # ex[c]) =>
            \A d \in Calls \ {c} : cbLog'[d] = cbLog[d] /\ ex'[d] = ex[d]]_vars

\* The later exchange completed with its callback called while the earlier
\* one is still in flight with its callback not called.
C28_Witness ==
  /\ ex[1].pc = "sent" /\ cbLog[1] = <<>>
  /\ ex[2].pc = "closed" /\ ex[2].nxhr = 1 /\ Len(cbLog[2]) = 1

\* C29: an invocation of an endpoint function that passed marshaling called
\* ajax once and has one exchange, with one XMLHttpRequest when the client
\* is live and none when the mock data is missing; an exchange that was
\* started is never started again, and once it is over (response of any
\* status, transport failure, mock error) nothing of it changes any more.
C29_OneExchange ==
  /\ [](\A c \in Calls :
          (Invoked(c) /\ invocation[c].thrown = "none") =>
            /\ DispatchedOnce(c)
            /\ ex[c].nxhr = IF testMode THEN 0 ELSE 1)
  /\ [][\A c \in Calls :
          ex[c].pc # "idle" =>
            /\ ex'[c].pc # "idle"
            /\ ex'[c].nxhr = ex[c].nxhr
            /\ ex'[c].url = ex[c].url /\ ex'[c].data = ex[c].data
            /\ ajaxArgs'[c] = ajaxArgs[c]
            /\ invocation'[c] = invocation[c]
            /\ ex[c].pc = "closed" => (ex'[c] = ex[c] /\ cbLog'[c] = cbLog[c])]_vars

\* One invocation ended with a 404 and the other with a transport failure,
\* each with one XMLHttpRequest and one call of its callback.
C29_Witness ==
  /\ \A c \in Calls : Invoked(c) /\ ex[c].pc = "closed" /\ ex[c].nxhr = 1 /\ Len(cbLog[c]) = 1
  /\ ex[1].resp.status = 404
  /\ ex[2].resp.status = 0 /\ cbLog[2] = <<CbErr(Val("Ajax call failed"))>>

\* --------------------------------------------------- transport failures
\* The step is the report of the failure err by the transport of exchange
\* c: the error event of its XMLHttpRequest, or an exception in the
\* dispatch after the XMLHttpRequest was created.
FailureReport(c, err) ==
  \/ err = Val("Ajax call failed") /\ XhrOnError(c)
  \/ /\ err = Val("send exception")
     /\ \E url \in Urls, data \in Payloads : Ajax(c, url, data, TRUE)
     /\ ex'[c].xhr

\* C31: when the transport of an exchange reports a failure, the caller's
\* callback is called once for that report with the error and no result,
\* and no interceptor is invoked for it: what the interceptors saw of the
\* exchange is as it was before the report.
C31_FailureToCallback ==
  [][\A c \in Calls, err \in TransportErrors :
       FailureReport(c, err) =>
         /\ cbLog'[c] = Append(cbLog[c], [err |-> err, result |-> UndefinedVal])
         /\ ex'[c].trace = ex[c].trace
         /\ ex'[c].resp = ex[c].resp
         /\ ex'[c].pc = "closed"]_vars

\* With an interceptor registered before both dispatches, one exchange
\* failed while sending and reported the exception with no interceptor
\* invoked, and the other reported the error event of its request.
C31_Witness ==
  \E c, d \in Calls :
    /\ ex[c].pc = "closed" /\ ex[c].nint >= 1 /\ ex[c].xhr
    /\ cbLog[c] = <<CbErr(Val("send exception"))>> /\ ex[c].trace = <<>>
    /\ ex[d].pc = "closed" /\ ex[d].nint >= 1
    /\ Len(cbLog[d]) >= 1
    /\ cbLog[d][Len(cbLog[d])] = CbErr(Val("Ajax call failed"))

\* -------------------------------------------------------- chain traversal
\* C32: in the traversal of the chain for an exchange (every interceptor
\* of the model calls its continuation once or not at all), no interceptor
\* is invoked twice, the interceptors invoked are the first ones of the
\* list in order, the completion step calls the caller's callback at most
\* once and only after the whole list was invoked, and the traversal leaves
\* the client's list and the other exchanges as they were.
C32_TraversalOnce ==
  [][\A c \in Calls :
       ChainRuns(c) =>
         LET ids == [k \in 1..Len(ex'[c].trace) |-> ex'[c].trace[k].id]
         IN /\ \A i, j \in 1..Len(ids) : i # j => ids[i] # ids[j]
            /\ Len(ids) <= Len(ajaxInterceptors)
            /\ \A k \in 1..Len(ids) : ids[k] = ajaxInterceptors[k].id
            /\ Len(cbLog'[c]) <= Len(cbLog[c]) + 1
            /\ (ex'[c].completed \/ cbLog'[c] # cbLog[c]) => Len(ids) = Len(ajaxInterceptors)
            /\ ajaxInterceptors' = ajaxInterceptors
            /\ \A d \in Calls \ {c} : ex'[d].trace = ex[d].trace /\ ex'[d].chain = ex[d].chain]_vars

\* Both exchanges went through the whole list, each interceptor invoked
\* once for each, each callback called once, and the list is still whole.
C32_Witness ==
  /\ Len(ajaxInterceptors) = MaxInterceptors
  /\ \A c \in Calls :
       /\ ex[c].completed /\ ex[c].nxhr = 1
       /\ Len(ex[c].trace) = MaxInterceptors
       /\ \A k \in 1..MaxInterceptors : ex[c].trace[k].id = k
       /\ Len(cbLog[c]) = 1

====
